---- MODULE Spec2Model ----
(***************************************************************************)
(* Model of foundrydeploy/deployer.py: the Deployer object (contracts,     *)
(* addresses, contract_signatures, is_legacy), its pickle cache file, the  *)
(* build artifacts it reads, and the action-script interpreter path().     *)
(***************************************************************************)
EXTENDS Integers, Sequences, FiniteSets, TLC

\* self.addresses as it was when __init__ returned
VARIABLE atStart

\* ---------------------------------------------------------------- bounds
MaxScriptLen == 3
MaxRuns == 2
MaxSkipLen == 5

\* ------------------------------------------------------- program constants
DEPLOY == 0
SEND == 1
SKIP_START == 2
SKIP_END == 3

\* ------------------------------------------------------------- small data
Rpc == "--rpc-url r1"
SignerPub == "0xPUB"
SignerGet == "--private-key k"
NoAttr == "<no attribute>"
LocA == "src/A.sol:A"
LocB == "src/B.sol:B"

\* dictionaries are functions with a finite DOMAIN
EmptyDict == [k \in {} |-> ""]
Put(m, k, v) == [x \in (DOMAIN m) \cup {k} |-> IF x = k THEN v ELSE m[x]]

\* An argument string is kept as (marker prefix, rest): "$A" is Tok("$","A").
Tok(pre, body) == [pre |-> pre, body |-> body]
Lit(s) == Tok("", s)
Ref(l) == Tok("$", l)
Pub == Tok("#PUB", "")

\* ------------------------------------------------------------ ABI entries
Fn(name, inputs) == [type |-> "function", name |-> name, inputs |-> inputs]
Ctor == [type |-> "constructor", inputs |-> <<>>]
\* a function entry whose "inputs" key is absent
BadFn(name) == [type |-> "function", name |-> name]

RECURSIVE Join(_)
Join(ts) ==
    IF Len(ts) = 0 THEN ""
    ELSE IF Len(ts) = 1 THEN ts[1]
    ELSE ts[1] \o "," \o Join(Tail(ts))

\* "{}({})".format(func_name, ",".join(inputs))
Signature(obj) == obj.name \o "(" \o Join(obj.inputs) \o ")"

\* ------------------------------------------------------- the Deployer object
\* self.contracts, self.addresses, self.contract_signatures are dictionaries;
\* self.is_legacy is NoAttr while the attribute has never been assigned.
NewDeployer ==
    [rpc |-> Rpc, contracts |-> EmptyDict, addresses |-> EmptyDict,
     contract_signatures |-> EmptyDict, is_legacy |-> NoAttr]

\* what pickle stores of the object and load_from_cache reads back
Snapshot(self) ==
    [contracts |-> self.contracts, addresses |-> self.addresses,
     contract_signatures |-> self.contract_signatures]

\* the file at self.cache_path
NoFile == [kind |-> "absent"]
EmptyFile == [kind |-> "empty"]
FullFile(snap) == [kind |-> "full", snap |-> snap]

\* _handle_arg that resolves against the addresses known at startup
handleArgAtStart(self, arg) ==
    IF arg.pre = "$"
    THEN IF arg.body \in DOMAIN atStart
         THEN [err |-> "", val |-> Lit(atStart[arg.body])]
         ELSE [err |-> "KeyError", val |-> arg]
    ELSE IF arg.pre = "#PUB"
    THEN [err |-> "", val |-> Lit(SignerPub)]
    ELSE [err |-> "", val |-> arg]

\* Deployer._handle_arg: [err, val]
_handle_arg(self, arg) ==
    IF arg.pre = "$"
    THEN IF arg.body \in DOMAIN self.addresses
         THEN [err |-> "", val |-> Lit(self.addresses[arg.body])]
         ELSE [err |-> "KeyError", val |-> arg]
    ELSE IF arg.pre = "#PUB"
    THEN [err |-> "", val |-> Lit(SignerPub)]
    ELSE [err |-> "", val |-> arg]

\* the "for arg in args" loops of deploy and send: [err, vals]
RECURSIVE HandleArgs(_, _)
HandleArgs(self, args) ==
    IF Len(args) = 0 THEN [err |-> "", vals |-> <<>>]
    ELSE LET h == _handle_arg(self, Head(args)) IN
         IF h.err # "" THEN [err |-> h.err, vals |-> <<>>]
         ELSE LET r == HandleArgs(self, Tail(args)) IN
              [err |-> r.err, vals |-> IF r.err = "" THEN <<h.val>> \o r.vals ELSE <<>>]

\* load_from_cache that forgets to copy contract_signatures
loadNoSignatures(self, file) ==
    IF file.kind = "absent" THEN [err |-> "", self |-> self]
    ELSE IF file.kind = "full"
    THEN [err |-> "",
          self |-> [self EXCEPT !.contracts = file.snap.contracts,
                                !.addresses = file.snap.addresses]]
    ELSE [err |-> "EOFError", self |-> self]

\* Deployer.load_from_cache: [err, self]
load_from_cache(self, file) ==
    IF file.kind = "absent" THEN [err |-> "", self |-> self]
    ELSE IF file.kind = "full"
    THEN [err |-> "",
          self |-> [self EXCEPT !.contracts = file.snap.contracts,
                                !.addresses = file.snap.addresses,
                                !.contract_signatures = file.snap.contract_signatures]]
    ELSE [err |-> "EOFError", self |-> self]

\* the "for obj in abi" loop of load_contract_signatures, from entry i on
RECURSIVE AbiLoop(_, _, _, _)
AbiLoop(self, contract_path, abi, i) ==
    IF i > Len(abi) THEN [err |-> "", self |-> self]
    ELSE IF abi[i].type # "function" THEN AbiLoop(self, contract_path, abi, i + 1)
    ELSE IF "inputs" \notin DOMAIN abi[i] THEN [err |-> "KeyError", self |-> self]
    ELSE LET sigs == self.contract_signatures
             table == IF contract_path \in DOMAIN sigs THEN sigs[contract_path] ELSE EmptyDict
             next == [self EXCEPT !.contract_signatures =
                         Put(sigs, contract_path, Put(table, abi[i].name, Signature(abi[i])))]
         IN AbiLoop(next, contract_path, abi, i + 1)

\* Deployer.load_contract_signatures: [err, self]
load_contract_signatures(self, contract_label, contract_path, out) ==
    IF out[contract_path].kind = "missing" THEN [err |-> "FileNotFoundError", self |-> self]
    ELSE IF out[contract_path].kind = "noabi" THEN [err |-> "KeyError", self |-> self]
    ELSE AbiLoop(self, contract_path, out[contract_path].abi, 1)

\* add_contracts that keeps an address the label already has (setdefault)
RECURSIVE addContractsKeep(_, _, _, _)
addContractsKeep(self, contracts, out, i) ==
    IF i > Len(contracts) THEN [err |-> "", self |-> self]
    ELSE LET contract == contracts[i]
             s1 == IF contract[2] # ""
                   THEN load_contract_signatures(
                            [self EXCEPT !.contracts = Put(self.contracts, contract[1], contract[2])],
                            contract[1], contract[2], out)
                   ELSE [err |-> "", self |-> self]
             s2 == IF Len(contract) = 3 /\ contract[1] \notin DOMAIN s1.self.addresses
                   THEN [s1.self EXCEPT !.addresses = Put(s1.self.addresses, contract[1], contract[3])]
                   ELSE s1.self
         IN IF s1.err # "" THEN s1 ELSE addContractsKeep(s2, contracts, out, i + 1)

\* Deployer.add_contracts, from entry i on: [err, self]
RECURSIVE add_contracts(_, _, _, _)
add_contracts(self, contracts, out, i) ==
    IF i > Len(contracts) THEN [err |-> "", self |-> self]
    ELSE LET contract == contracts[i]
             s1 == IF contract[2] # ""
                   THEN load_contract_signatures(
                            [self EXCEPT !.contracts = Put(self.contracts, contract[1], contract[2])],
                            contract[1], contract[2], out)
                   ELSE [err |-> "", self |-> self]
             s2 == IF Len(contract) = 3
                   THEN [s1.self EXCEPT !.addresses = Put(s1.self.addresses, contract[1], contract[3])]
                   ELSE s1.self
         IN IF s1.err # "" THEN s1 ELSE add_contracts(s2, contracts, out, i + 1)

\* Deployer.__init__: [err, self]
DeployerInit(file, contracts, is_legacy, out) ==
    LET s1 == load_from_cache(NewDeployer, file)
        s2 == add_contracts(s1.self, contracts, out, 1)
    IN IF s1.err # "" THEN s1
       ELSE IF s2.err # "" THEN s2
       ELSE [err |-> "",
             self |-> IF is_legacy THEN [s2.self EXCEPT !.is_legacy = "--legacy"] ELSE s2.self]

\* ------------------------------------------------------------ OS execution
\* what the external tool answers: its exit code and its output lines; a line
\* is (text before its last 42 characters, last 42 characters)
Line(key, tail) == [key |-> key, tail |-> tail]
Result(rc, lines) == [returncode |-> rc, lines |-> lines]

\* run that returns to its caller after a failing command
runNoExit(self, cmd, res) ==
    [cmd |-> cmd, returncode |-> res.returncode, exit |-> "", result |-> res.lines]

\* run that exits on a failing command without calling self.save()
runNoSave(self, cmd, res) ==
    [cmd |-> cmd, returncode |-> res.returncode,
     exit |-> IF res.returncode # 0 THEN "nosave" ELSE "", result |-> res.lines]

\* Deployer.run: the command as issued and how the call ends: exit is "" when it
\* returns, "save" when it calls self.save() and then exit(1)
run(self, cmd, res) ==
    [cmd |-> cmd, returncode |-> res.returncode,
     exit |-> IF res.returncode # 0 THEN "save" ELSE "", result |-> res.lines]

\* the "for line in result.splitlines()" loop of deploy
RECURSIVE ParseAddress(_)
ParseAddress(lines) ==
    IF Len(lines) = 0 THEN ""
    ELSE IF Head(lines).key = "Deployed to: " THEN Head(lines).tail
    ELSE ParseAddress(Tail(lines))

\* outcome of one call: the object after it, the exception raised (if any), the
\* value returned, the commands handed to run, and run's exit ("" when it returned)
Outcome(self, err, ret, cmds, exit) ==
    [self |-> self, err |-> err, ret |-> ret, cmds |-> cmds, exit |-> exit]

\* ------------------------------------------------------------ Foundry calls
\* Deployer.deploy after the cached-address check (lines 185-211)
deployFresh(self, contract_label, args, res) ==
    IF contract_label \notin DOMAIN self.contracts
    THEN Outcome(self, "KeyError", "", <<>>, "")
    ELSE LET const == HandleArgs(self, args) IN
    IF const.err # "" THEN Outcome(self, const.err, "", <<>>, "")
    ELSE IF self.is_legacy = NoAttr THEN Outcome(self, "AttributeError", "", <<>>, "")
    ELSE LET cmd == [tool |-> "forge create", label |-> contract_label, rpc |-> self.rpc,
                     legacy |-> self.is_legacy, signer |-> SignerGet,
                     target |-> self.contracts[contract_label], args |-> const.vals]
             r == run(self, cmd, res)
             address == ParseAddress(r.result)
         IN
    IF r.exit # "" THEN Outcome(self, "", "", <<r>>, r.exit)
    ELSE IF address = "" THEN Outcome(self, "ValueError", "", <<r>>, "")
    ELSE Outcome([self EXCEPT !.addresses = Put(self.addresses, contract_label, address)],
                 "", address, <<r>>, "")

\* deploy without the "contract_label in self.addresses" shortcut
deployAlways(self, contract_label, args, res) ==
    deployFresh(self, contract_label, args, res)

\* Deployer.deploy
deploy(self, contract_label, args, res) ==
    IF contract_label \in DOMAIN self.addresses
    THEN Outcome(self, "", self.addresses[contract_label], <<>>, "")
    ELSE deployFresh(self, contract_label, args, res)

\* Deployer.send; _args is the caller's list, which line 225 assigns into
send(self, contract_label, address, _args, res) ==
    IF contract_label \notin DOMAIN self.contracts
    THEN [out |-> Outcome(self, "KeyError", "", <<>>, ""), _args |-> _args]
    ELSE LET contract_path == self.contracts[contract_label] IN
    IF Len(_args) = 0
    THEN [out |-> Outcome(self, "IndexError", "", <<>>, ""), _args |-> _args]
    ELSE LET function_name == _args[1].pre \o _args[1].body IN
    IF contract_path \notin DOMAIN self.contract_signatures
    THEN [out |-> Outcome(self, "KeyError", "", <<>>, ""), _args |-> _args]
    ELSE IF function_name \notin DOMAIN self.contract_signatures[contract_path]
    THEN [out |-> Outcome(self, "AttributeError", "", <<>>, ""), _args |-> _args]
    ELSE LET quoted == Tok("\"", self.contract_signatures[contract_path][function_name] \o "\"")
             args1 == [_args EXCEPT ![1] = quoted]
             args == HandleArgs(self, args1)
         IN
    IF args.err # "" THEN [out |-> Outcome(self, args.err, "", <<>>, ""), _args |-> args1]
    ELSE IF self.is_legacy = NoAttr
    THEN [out |-> Outcome(self, "AttributeError", "", <<>>, ""), _args |-> args1]
    ELSE LET cmd == [tool |-> "cast send", label |-> contract_label, rpc |-> self.rpc,
                     legacy |-> self.is_legacy, signer |-> SignerGet,
                     target |-> address, args |-> args.vals]
             r == run(self, cmd, res)
         IN [out |-> Outcome(self, "", "", <<r>>, r.exit), _args |-> args1]

\* -------------------------------------------------------------- action flow
Instr(action, label, arguments) ==
    [action |-> action, label |-> label, arguments |-> arguments]

\* the branches with self.addresses.get(label) in place of self.addresses[label]
DispatchGet(self, instr, res) ==
    IF instr.action = SEND
    THEN LET address == IF instr.label \in DOMAIN self.addresses
                        THEN self.addresses[instr.label] ELSE "None"
             s == send(self, instr.label, address, instr.arguments, res)
         IN [out |-> s.out, arguments |-> s._args]
    ELSE IF instr.action = DEPLOY
    THEN [out |-> deploy(self, instr.label, instr.arguments, res),
          arguments |-> instr.arguments]
    ELSE [out |-> Outcome(self, "", "", <<>>, ""), arguments |-> instr.arguments]

\* the SEND / DEPLOY branches of path's loop body (lines 270-277)
Dispatch(self, instr, res) ==
    IF instr.action = SEND
    THEN IF instr.label \notin DOMAIN self.addresses
         THEN [out |-> Outcome(self, "KeyError", "", <<>>, ""), arguments |-> instr.arguments]
         ELSE LET s == send(self, instr.label, self.addresses[instr.label],
                            instr.arguments, res)
              IN [out |-> s.out, arguments |-> s._args]
    ELSE IF instr.action = DEPLOY
    THEN [out |-> deploy(self, instr.label, instr.arguments, res),
          arguments |-> instr.arguments]
    ELSE [out |-> Outcome(self, "", "", <<>>, ""), arguments |-> instr.arguments]

\* the loop body with markers that toggle skipping
PathStepToggle(self, skipping, instr, res) ==
    LET idle == Outcome(self, "", "", <<>>, "")
        now == IF instr.action \in {SKIP_START, SKIP_END} THEN ~skipping ELSE skipping
    IN IF instr.action \in {SKIP_START, SKIP_END} \/ now
       THEN [out |-> idle, skipping |-> now, arguments |-> instr.arguments]
       ELSE LET x == Dispatch(self, instr, res)
            IN [out |-> x.out, skipping |-> now, arguments |-> x.arguments]

\* the loop body without its "if skipping: continue"
PathStepNoContinue(self, skipping, instr, res) ==
    LET now == IF instr.action = SKIP_START THEN TRUE
               ELSE IF instr.action = SKIP_END THEN FALSE
               ELSE skipping
        x == Dispatch(self, instr, res)
    IN [out |-> x.out, skipping |-> now, arguments |-> x.arguments]

\* one iteration of the "for (action, label, arguments) in path" loop:
\* the outcome, the value of skipping after it and the instruction's list
PathStep(self, skipping, instr, res) ==
    LET idle == Outcome(self, "", "", <<>>, "")
        now == IF instr.action = SKIP_START THEN TRUE
               ELSE IF instr.action = SKIP_END THEN FALSE
               ELSE skipping
    IN IF instr.action = SKIP_END \/ now
       THEN [out |-> idle, skipping |-> now, arguments |-> instr.arguments]
       ELSE LET x == Dispatch(self, instr, res)
            IN [out |-> x.out, skipping |-> now, arguments |-> x.arguments]

\* ------------------------------------------------------------ input domains
Instrs ==
    { Instr(DEPLOY, "A", <<Pub>>),
      Instr(DEPLOY, "A", <<Ref("B")>>),
      Instr(DEPLOY, "B", <<Ref("A")>>),
      Instr(SEND, "A", <<Lit("f"), Ref("B")>>),
      Instr(SKIP_START, "", <<>>),
      Instr(SKIP_END, "", <<>>) }

Scripts == UNION { [1..n -> Instrs] : n \in 0..MaxScriptLen }

\* the caller's contracts list
RegLists ==
    { << <<"A", LocA>>, <<"B", LocB>> >>,
      << <<"A", LocA, "0xA0">>, <<"B", "", "0xB0">> >>,
      << <<"A", "", "0xA0">>, <<"B", LocB>> >> }

\* states of the out/ directory the build step leaves
Abi(entries) == [kind |-> "abi", abi |-> entries]
Builds ==
    { [p \in {LocA, LocB} |->
          IF p = LocA THEN Abi(<<Ctor, Fn("f", <<"address">>), Fn("g", <<>>)>>)
          ELSE Abi(<<Ctor, Fn("g", <<"uint256">>)>>)],
      [p \in {LocA, LocB} |->
          IF p = LocA THEN Abi(<<Ctor, Fn("g", <<>>)>>)
          ELSE Abi(<<Ctor, Fn("g", <<"uint256">>)>>)] }

\* address the n-th contract creation on the chain gets
Addr(n) == "0x" \o ToString(n)

\* answers of the external tool when n contracts exist on the chain
Results(n) ==
    { Result(1, <<>>),
      Result(0, <<Line("Deployer: ", SignerPub), Line("Deployed to: ", Addr(n + 1))>>),
      Result(0, <<Line("Transaction hash: ", "0xh")>>) }

\* --------------------------------------------------------------------- state
VARIABLES
    program,     \* the caller: its contracts list, is_legacy and script
    out,         \* build artifacts under out/
    cacheFile,   \* the file at cache_path
    chain,       \* labels of the forge create commands that exited 0, in order
    runs,        \* processes started so far
    pc,          \* where the process is
    d,           \* the Deployer object
    path,        \* the list object handed to path()
    ip,          \* index of the next instruction of path
    skipping,    \* path's local
    after,       \* where save() returns to
    issued,      \* commands this process handed to run
    stored,      \* labels whose address a deploy of this process stored
    err,         \* exception that ended the process
    ret,         \* value the last deploy returned
    other,       \* a second process on the same cache file, while it is not scheduled
    overlap      \* a process was started while another one was still running

vars == <<program, out, cacheFile, chain, runs, pc, d, path, ip, skipping,
          after, issued, stored, atStart, err, ret, other, overlap>>

\* no process: none started yet, path() returned, exit(1), an exception left
\* path() or __init__, or the process was stopped
Stopped == {"idle", "done", "exit1", "raised", "init_raised", "killed"}

\* a process as it is kept while another one is scheduled
Slot(pc_, d_, path_, ip_, skipping_, after_, issued_, stored_, atStart_, err_, ret_) ==
    [pc |-> pc_, d |-> d_, path |-> path_, ip |-> ip_, skipping |-> skipping_,
     after |-> after_, issued |-> issued_, stored |-> stored_, atStart |-> atStart_,
     err |-> err_, ret |-> ret_]

IdleSlot == Slot("idle", NewDeployer, <<>>, 1, FALSE, "", <<>>, {}, EmptyDict, "", "")

\* before the first process, for a caller's program out of a given set
InitWith(programs, builds) ==
    /\ program \in programs
    /\ out \in builds
    /\ cacheFile = NoFile
    /\ chain = <<>>
    /\ runs = 0
    /\ pc = "idle"
    /\ d = NewDeployer
    /\ path = <<>>
    /\ ip = 1
    /\ skipping = FALSE
    /\ after = ""
    /\ issued = <<>>
    /\ stored = {}
    /\ atStart = EmptyDict
    /\ err = ""
    /\ ret = ""
    /\ other = IdleSlot
    /\ overlap = FALSE

Init == InitWith([contracts : RegLists, is_legacy : BOOLEAN, path : Scripts], Builds)

\* the build step runs between two processes and rewrites out/
Rebuild(builds) ==
    /\ pc \in Stopped
    /\ runs < MaxRuns
    /\ \E b \in builds : b # out /\ out' = b
    /\ UNCHANGED <<other, overlap, program, cacheFile, chain, runs, pc, d, path, ip, skipping,
                   after, issued, stored, atStart, err, ret>>

Build == Rebuild(Builds)

\* a process starts with the contracts list c: Deployer(rpc, signer, c, is_legacy)
Start(c) ==
    /\ pc \in Stopped
    /\ runs < MaxRuns
    /\ runs' = runs + 1
    /\ program' = [program EXCEPT !.contracts = c]
    /\ LET r == DeployerInit(cacheFile, c, program.is_legacy, out) IN
       /\ d' = r.self
       /\ err' = r.err
       /\ pc' = IF r.err = "" THEN "ready" ELSE "init_raised"
       /\ atStart' = r.self.addresses
    /\ path' = program.path
    /\ ip' = 1
    /\ skipping' = FALSE
    /\ after' = ""
    /\ issued' = <<>>
    /\ stored' = {}
    /\ ret' = ""
    /\ overlap' = (overlap \/ other.pc \notin Stopped)
    /\ UNCHANGED <<other, out, cacheFile, chain>>

\* the caller's program is started
Construct == Start(program.contracts)

\* deployer.path(path) is called
PathCall ==
    /\ pc = "ready"
    /\ pc' = "path"
    /\ ip' = 1
    /\ skipping' = FALSE
    /\ UNCHANGED <<other, overlap, program, out, cacheFile, chain, runs, d, path, after, issued,
                   stored, atStart, err, ret>>

\* one iteration of path's loop
Step ==
    /\ pc = "path"
    /\ ip <= Len(path)
    /\ \E res \in Results(Len(chain)) :
         LET s == PathStep(d, skipping, path[ip], res)
             o == s.out
             created == \E i \in 1..Len(o.cmds) :
                            o.cmds[i].cmd.tool = "forge create" /\ o.cmds[i].returncode = 0
         IN /\ d' = o.self
            /\ skipping' = s.skipping
            /\ path' = [path EXCEPT ![ip].arguments = s.arguments]
            /\ issued' = issued \o o.cmds
            /\ chain' = IF created THEN Append(chain, path[ip].label) ELSE chain
            /\ stored' = IF o.self.addresses # d.addresses
                         THEN stored \cup {path[ip].label} ELSE stored
            /\ err' = o.err
            /\ ret' = o.ret
            /\ IF o.err # "" THEN pc' = "raised" /\ ip' = ip /\ after' = after
               ELSE IF o.exit = "save" THEN pc' = "save" /\ ip' = ip /\ after' = "exit1"
               ELSE IF o.exit # "" THEN pc' = "exit1" /\ ip' = ip /\ after' = after
               ELSE pc' = "path" /\ ip' = ip + 1 /\ after' = after
    /\ UNCHANGED <<other, overlap, program, out, cacheFile, runs, atStart>>

\* the loop is over: self.save(), self.print()
PathEnd ==
    /\ pc = "path"
    /\ ip > Len(path)
    /\ pc' = "save"
    /\ after' = "done"
    /\ UNCHANGED <<other, overlap, program, out, cacheFile, chain, runs, d, path, ip, skipping,
                   issued, stored, atStart, err, ret>>

\* save, first half: open(self.cache_path, "wb") truncates the file
SaveOpen ==
    /\ pc = "save"
    /\ cacheFile' = EmptyFile
    /\ pc' = "dump"
    /\ UNCHANGED <<other, overlap, program, out, chain, runs, d, path, ip, skipping, after,
                   issued, stored, atStart, err, ret>>

\* save, second half: pickle.dump(self, f) and the close of the file
SaveDump ==
    /\ pc = "dump"
    /\ cacheFile' = FullFile(Snapshot(d))
    /\ pc' = after
    /\ UNCHANGED <<other, overlap, program, out, chain, runs, d, path, ip, skipping, after,
                   issued, stored, atStart, err, ret>>

\* the process is stopped from outside while save() is writing
Kill ==
    /\ pc = "dump"
    /\ pc' = "killed"
    /\ UNCHANGED <<other, overlap, program, out, cacheFile, chain, runs, d, path, ip, skipping,
                   after, issued, stored, atStart, err, ret>>

Next ==
    \/ Build
    \/ Construct
    \/ PathCall
    \/ Step
    \/ PathEnd
    \/ SaveOpen
    \/ SaveDump
    \/ Kill

Spec == Init /\ [][Next]_vars

\* ------------------------------------------------------------ skip scripts
\* longer scripts of skip markers around one Deploy
SkipInstrs ==
    { Instr(SKIP_START, "", <<>>), Instr(SKIP_END, "", <<>>), Instr(DEPLOY, "A", <<Pub>>) }

SkipScripts == UNION { [1..n -> SkipInstrs] : n \in 0..MaxSkipLen }

InitSkip ==
    InitWith([contracts : { << <<"A", LocA>>, <<"B", LocB>> >> }, is_legacy : {TRUE},
              path : SkipScripts], Builds)

SpecSkip == InitSkip /\ [][Next]_vars

\* ---------------------------------------------------------- registration runs
\* every process is started with a contracts list of its own
RegListsWide ==
    { <<>>,
      << <<"A", LocA>>, <<"B", LocB>> >>,
      << <<"A", LocA, "0xA0">>, <<"A", "", "0xA1">> >>,
      << <<"A", "", "0xA1">>, <<"A", LocB, "0xA0">> >>,
      << <<"A", LocB>>, <<"A", LocA>> >>,
      << <<"A", LocA, "0xA0">>, <<"A", LocB>> >>,
      << <<"B", "", "0xB0">> >> }

RegScripts == { <<>> } \cup { <<i>> : i \in Instrs }

InitReg == InitWith([contracts : {<<>>}, is_legacy : {TRUE}, path : RegScripts], Builds)

StartAny == \E c \in RegListsWide : Start(c)

NextReg ==
    \/ StartAny
    \/ PathCall
    \/ Step
    \/ PathEnd
    \/ SaveOpen
    \/ SaveDump
    \/ Kill

SpecReg == InitReg /\ [][NextReg]_vars

\* -------------------------------------------------------- broken artifacts
\* out/ directories with a missing artifact, an artifact without "abi", an ABI
\* without function and a function entry without "inputs"
ArtifactsA ==
    { Abi(<<Ctor, Fn("f", <<"address">>), Fn("g", <<>>)>>),
      Abi(<<Ctor>>),
      Abi(<<Ctor, Fn("g", <<>>), BadFn("f")>>),
      [kind |-> "missing"],
      [kind |-> "noabi"] }

ArtifactsB == { Abi(<<Ctor, Fn("g", <<"uint256">>)>>), [kind |-> "missing"] }

BuildsWide ==
    { [p \in {LocA, LocB} |-> IF p = LocA THEN a ELSE b] : a \in ArtifactsA, b \in ArtifactsB }

ArtLists ==
    { << <<"A", LocA>>, <<"B", LocB>> >>,
      << <<"B", LocB, "0xB0">>, <<"A", LocA, "0xA0">> >> }

InitArt ==
    InitWith([contracts : ArtLists, is_legacy : {TRUE}, path : RegScripts], BuildsWide)

BuildAny == Rebuild(BuildsWide)

NextArt ==
    \/ BuildAny
    \/ Construct
    \/ PathCall
    \/ Step
    \/ PathEnd
    \/ SaveOpen
    \/ SaveDump
    \/ Kill

SpecArt == InitArt /\ [][NextArt]_vars

\* ------------------------------------------------------- two processes
\* the operating system schedules the other process of the two that share the
\* cache file and the chain
Switch ==
    /\ other' = Slot(pc, d, path, ip, skipping, after, issued, stored, atStart, err, ret)
    /\ pc' = other.pc
    /\ d' = other.d
    /\ path' = other.path
    /\ ip' = other.ip
    /\ skipping' = other.skipping
    /\ after' = other.after
    /\ issued' = other.issued
    /\ stored' = other.stored
    /\ atStart' = other.atStart
    /\ err' = other.err
    /\ ret' = other.ret
    /\ UNCHANGED <<overlap, program, out, cacheFile, chain, runs>>

ConcScripts ==
    { <<Instr(DEPLOY, "A", <<Pub>>)>>,
      <<Instr(DEPLOY, "A", <<Pub>>), Instr(DEPLOY, "B", <<Ref("A")>>)>> }

InitConc ==
    InitWith([contracts : { << <<"A", LocA>>, <<"B", LocB>> >> }, is_legacy : {TRUE},
              path : ConcScripts], Builds)

NextConc ==
    \/ Construct
    \/ PathCall
    \/ Step
    \/ PathEnd
    \/ SaveOpen
    \/ SaveDump
    \/ Kill
    \/ Switch

SpecConc == InitConc /\ [][NextConc]_vars

\* ======================================================================
\* Properties
\* ======================================================================
Labels == {"A", "B"}

\* the process is about to execute path[ip]
AtInstr == pc = "path" /\ ip <= Len(path)

\* position i of script s lies after a SKIP_START with no SKIP_END in between
InSkipRange(s, i) ==
    \E j \in 1..(i - 1) :
        /\ s[j].action = SKIP_START
        /\ \A k \in (j + 1)..(i - 1) : s[k].action # SKIP_END

\* forge create commands this process issued for label l
DeployCmds(l) ==
    { i \in 1..Len(issued) : issued[i].cmd.tool = "forge create" /\ issued[i].cmd.label = l }

\* C1: an Active Deploy(L, args') met after a Deploy of L stored an address in
\* this process issues no command, leaves the object and the cache file as they
\* are and returns the stored address; the process has then issued exactly one
\* forge create for L.
C1_IdempotentDeploy ==
    /\ [][(AtInstr /\ ~skipping /\ path[ip].action = DEPLOY /\ path[ip].label \in stored)
            => /\ issued' = issued
               /\ d' = d
               /\ cacheFile' = cacheFile
               /\ chain' = chain
               /\ ret' = d.addresses[path[ip].label]
               /\ pc' = "path"]_vars
    /\ [](\A l \in stored : Cardinality(DeployCmds(l)) = 1)

\* C1 witness: the second of two Active Deploy(L) has just been executed
C1_Witness ==
    /\ pc = "path"
    /\ \E i \in 1..(ip - 2) :
        /\ path[i].action = DEPLOY /\ path[ip - 1].action = DEPLOY
        /\ path[i].label = path[ip - 1].label
        /\ ~InSkipRange(path, i) /\ ~InSkipRange(path, ip - 1)
        /\ path[i].label \in stored
        /\ Cardinality(DeployCmds(path[i].label)) = 1
        /\ ret = d.addresses[path[i].label]

\* path() has ended in one of the ways the process ends by itself
RunEnded == pc \in {"done", "exit1", "raised"}

\* C2 (as claimed): however the run ended, every address a Deploy of this run
\* stored is in the cache file.
C2_ProgressNeverLost ==
    RunEnded
        => \A l \in stored :
              /\ cacheFile.kind = "full"
              /\ l \in DOMAIN cacheFile.snap.addresses
              /\ cacheFile.snap.addresses[l] = d.addresses[l]

\* C3: when a command exits non-zero the process ends with the cache saved; a
\* load of it has the addresses known at startup and those stored before the
\* failing instruction, and none for the label of a failing Deploy.
C3_CheckpointOnFailure ==
    pc = "exit1" =>
        LET ld == load_from_cache(NewDeployer, cacheFile) IN
        /\ cacheFile.kind = "full"
        /\ ld.err = ""
        /\ \A l \in DOMAIN atStart :
              l \in DOMAIN ld.self.addresses /\ ld.self.addresses[l] = atStart[l]
        /\ \A l \in stored :
              l \in DOMAIN ld.self.addresses /\ ld.self.addresses[l] = d.addresses[l]
        /\ path[ip].action = DEPLOY => path[ip].label \notin DOMAIN ld.self.addresses

\* C3 witness: Deploy(A) stored an address, then Deploy(B)'s command failed
C3_Witness ==
    /\ pc = "exit1"
    /\ "A" \in stored
    /\ path[ip].action = DEPLOY /\ path[ip].label = "B"
    /\ issued[Len(issued)].returncode # 0

C5_ResumeWithoutReexecution ==
    \A l \in Labels : Cardinality({ i \in 1..Len(chain) : chain[i] = l }) <= 1

\* C6 (as claimed): a process stopped inside save() leaves the cache file absent
\* or complete, and the next startup's load restores it or finds no file.
C6_AtomicSave ==
    pc = "killed" =>
        /\ cacheFile.kind \in {"absent", "full"}
        /\ load_from_cache(NewDeployer, cacheFile).err = ""

\* C7: an Active Send(L, args) with no address for L raises the lookup error,
\* issues no command and leaves the object (addresses included) and the chain
\* as they are.
C7_SendPrecondition ==
    [][(AtInstr /\ ~skipping /\ path[ip].action = SEND
            /\ path[ip].label \notin DOMAIN d.addresses)
         => /\ pc' = "raised"
            /\ err' = "KeyError"
            /\ issued' = issued
            /\ chain' = chain
            /\ d' = d
            /\ stored' = stored]_vars

\* C7 witness: the run was aborted by an Active Send to a label without address
C7_Witness ==
    /\ pc = "raised" /\ err = "KeyError"
    /\ ip <= Len(path)
    /\ path[ip].action = SEND
    /\ ~skipping
    /\ path[ip].label \notin DOMAIN d.addresses
    /\ path[ip].label \in DOMAIN d.contracts

\* path[ip] is an Active Deploy of a registered label without address, or an
\* Active Send to a label with an address and a known function, and in both
\* cases every `$label` argument resolves
Issuable ==
    /\ AtInstr /\ ~skipping
    /\ \/ /\ path[ip].action = DEPLOY
          /\ path[ip].label \in DOMAIN d.contracts
          /\ path[ip].label \notin DOMAIN d.addresses
          /\ HandleArgs(d, path[ip].arguments).err = ""
       \/ /\ path[ip].action = SEND
          /\ path[ip].label \in DOMAIN d.addresses
          /\ path[ip].label \in DOMAIN d.contracts
          /\ d.contracts[path[ip].label] \in DOMAIN d.contract_signatures
          /\ Len(path[ip].arguments) > 0
          /\ path[ip].arguments[1].pre = ""
          /\ path[ip].arguments[1].body
                 \in DOMAIN d.contract_signatures[d.contracts[path[ip].label]]
          /\ HandleArgs(d, Tail(path[ip].arguments)).err = ""

\* C8 (as claimed): with legacy mode on or off, such a Deploy or Send issues its
\* command, and the command has the legacy flag exactly when legacy mode is on.
C8_LegacyFlagOptional ==
    [][Issuable
         => /\ Len(issued') = Len(issued) + 1
            /\ (issued'[Len(issued')].cmd.legacy = "--legacy") <=> program.is_legacy]_vars

\* names of the "function" entries of an ABI
FnNames(abi) == { abi[i].name : i \in { j \in 1..Len(abi) : abi[j].type = "function" } }

\* C9 (as claimed): after startup the table stored for the locator of every
\* registered contract holds exactly the functions of the artifact just loaded.
C9_SignatureTableOverwritten ==
    pc = "ready" =>
        \A i \in 1..Len(program.contracts) :
            LET loc == program.contracts[i][2] IN
            loc # "" =>
                /\ loc \in DOMAIN d.contract_signatures
                /\ DOMAIN d.contract_signatures[loc] = FnNames(out[loc].abi)

\* C10 (as claimed): in a re-run, an Active Send whose label has an address and
\* whose function is known issues its command again.
C10_SendsNotDeduplicated ==
    [][(runs >= 2 /\ Issuable /\ path[ip].action = SEND)
         => Len(issued') = Len(issued) + 1]_vars

\* C11: once save() has written the file it holds the three mappings of the
\* object, and a startup with an empty contracts list that follows gives an
\* object with the same three mappings.
C11_CacheRoundTrip ==
    /\ [](pc \in {"done", "exit1"} => cacheFile = FullFile(Snapshot(d)))
    /\ [][(pc \in {"done", "exit1"} /\ pc' \in {"ready", "init_raised"}
             /\ program'.contracts = <<>>)
            => (pc' = "ready" /\ Snapshot(d') = Snapshot(d))]_vars

\* C11 witness: a process started with an empty list on a saved cache that has
\* locators, addresses and signature tables
C11_Witness ==
    /\ pc = "ready" /\ runs >= 2
    /\ program.contracts = <<>>
    /\ cacheFile = FullFile(Snapshot(d))
    /\ DOMAIN d.contracts # {} /\ DOMAIN d.addresses # {}
    /\ DOMAIN d.contract_signatures # {}
    /\ \E l \in DOMAIN d.addresses : d.addresses[l] = Addr(1)

\* largest element of a non-empty set of numbers
MaxOf(S) == CHOOSE x \in S : \A y \in S : y <= x

\* what the cache file held when the process started
CachedAddresses == IF cacheFile.kind = "full" THEN cacheFile.snap.addresses ELSE EmptyDict
CachedContracts == IF cacheFile.kind = "full" THEN cacheFile.snap.contracts ELSE EmptyDict

\* dictionary m has for key k what position MaxOf(K) of the list supplies in
\* field f, or, when K is empty, what the cached dictionary has
Overlaid(m, k, K, f, cached) ==
    IF K # {}
    THEN k \in DOMAIN m /\ m[k] = program.contracts[MaxOf(K)][f]
    ELSE /\ k \in DOMAIN m <=> k \in DOMAIN cached
         /\ k \in DOMAIN cached => m[k] = cached[k]

\* C12: after startup each label has the address of the last triple of the
\* contracts list that gives it one, else the cached address; the locator of the
\* last entry with a non-empty locator, else the cached locator.
C12_RegistrationOverlaysCache ==
    pc = "ready" =>
        \A l \in Labels :
            LET c == program.contracts
                withAddr == { i \in 1..Len(c) : c[i][1] = l /\ Len(c[i]) = 3 }
                withLoc == { i \in 1..Len(c) : c[i][1] = l /\ c[i][2] # "" }
            IN /\ Overlaid(d.addresses, l, withAddr, 3, CachedAddresses)
               /\ Overlaid(d.contracts, l, withLoc, 2, CachedContracts)

\* C12 witness: the list gives A two addresses and the cache a third, and B is
\* only in the cache
C12_Witness ==
    /\ pc = "ready"
    /\ program.contracts = << <<"A", LocA, "0xA0">>, <<"A", "", "0xA1">> >>
    /\ "A" \in DOMAIN CachedAddresses /\ CachedAddresses["A"] = Addr(1)
    /\ d.addresses["A"] = "0xA1"
    /\ "B" \in DOMAIN CachedContracts /\ d.contracts["B"] = LocB

\* command record r is the command of instruction instr
CommandOf(r, instr) ==
    /\ r.cmd.label = instr.label
    /\ \/ instr.action = DEPLOY /\ r.cmd.tool = "forge create"
       \/ instr.action = SEND /\ r.cmd.tool = "cast send"

\* instructions of path the loop has taken up so far
Executed == IF pc = "path" THEN ip - 1 ELSE IF ip <= Len(path) THEN ip ELSE Len(path)

\* issued[i..] are commands of distinct instructions of path[j..Executed], in order
RECURSIVE InScriptOrder(_, _)
InScriptOrder(i, j) ==
    IF i > Len(issued) THEN TRUE
    ELSE IF j > Executed THEN FALSE
    ELSE IF CommandOf(issued[i], path[j]) THEN InScriptOrder(i + 1, j + 1)
    ELSE InScriptOrder(i, j + 1)

\* the run has failed: an exception left path(), or run() is on its way to exit(1)
Failed == pc \in {"raised", "exit1"} \/ (pc \in {"save", "dump"} /\ after = "exit1")

\* C13: the commands of a run are those of distinct instructions in script
\* order, a step issues at most one, a command that exited non-zero is the last
\* one, and once the run has failed it issues nothing more and leaves the object.
C13_FailFastInOrder ==
    /\ [](InScriptOrder(1, 1))
    /\ [](\A i \in 1..(Len(issued) - 1) : issued[i].returncode = 0)
    /\ [][runs' = runs => Len(issued') <= Len(issued) + 1]_vars
    /\ [][(Failed /\ runs' = runs) => (issued' = issued /\ d' = d /\ ip' = ip)]_vars

\* C13 witness: the second of three instructions issued a command that failed
\* after the first one's succeeded; the third is a Deploy or Send never taken up
C13_Witness ==
    /\ pc = "exit1"
    /\ Len(path) = 3 /\ ip = 2
    /\ Len(issued) = 2
    /\ issued[1].returncode = 0 /\ issued[2].returncode # 0
    /\ path[3].action \in {DEPLOY, SEND}

\* the skip markers among the first n instructions of script s
Markers(s, n) == { j \in 1..n : s[j].action \in {SKIP_START, SKIP_END} }

\* the most recent skip marker among the first n instructions is a SKIP_START
LastMarkerIsStart(s, n) ==
    Markers(s, n) # {} /\ s[MaxOf(Markers(s, n))].action = SKIP_START

\* C14: after any prefix of the script the loop is skipping exactly when the most
\* recent marker of the prefix is a SKIP_START, and a SKIP_END met while not
\* skipping changes nothing.
C14_SkipRangesDoNotNest ==
    /\ [](pc = "path" => (skipping <=> LastMarkerIsStart(path, ip - 1)))
    /\ [][(AtInstr /\ ~skipping /\ path[ip].action = SKIP_END)
            => /\ ~skipping' /\ d' = d /\ issued' = issued
               /\ cacheFile' = cacheFile /\ pc' = "path"]_vars

\* C14 witness: in [SkipStart, SkipStart, SkipEnd, Deploy(A), SkipEnd] the Deploy
\* has issued its command and stored the address
C14_Witness ==
    /\ pc = "path" /\ ip = 5 /\ Len(path) = 5
    /\ path[1].action = SKIP_START /\ path[2].action = SKIP_START
    /\ path[3].action = SKIP_END /\ path[4].action = DEPLOY
    /\ path[5].action = SKIP_END
    /\ ~skipping
    /\ Len(issued) = 1 /\ path[4].label \in stored

\* path[ip] is an Active Send, or an Active Deploy of a label without address
Executes ==
    /\ AtInstr /\ ~skipping
    /\ \/ path[ip].action = SEND
       \/ path[ip].action = DEPLOY /\ path[ip].label \notin DOMAIN d.addresses

\* some `$L` of the argument list has no address in the object
Unresolved(args) ==
    \E k \in 1..Len(args) : args[k].pre = "$" /\ args[k].body \notin DOMAIN d.addresses

\* what argument tok stands for, given the addresses the object holds now
Expected(tok) ==
    IF tok.pre = "$" THEN Lit(d.addresses[tok.body])
    ELSE IF tok.pre = "#PUB" THEN Lit(SignerPub)
    ELSE tok

\* the dictionary lookups of the instruction other than those of its `$L`
\* arguments succeed (lines 180, 220, 223, 273)
OtherKeysPresent ==
    /\ path[ip].label \in DOMAIN d.contracts
    /\ path[ip].action = SEND =>
          /\ path[ip].label \in DOMAIN d.addresses
          /\ d.contracts[path[ip].label] \in DOMAIN d.contract_signatures

\* C15: when such an instruction is executed and a `$L` has no address in the
\* object at that moment, the run is aborted without a command; a command that
\* is issued carries, for every `$L`, the address the object held for L then;
\* and when every `$L` has an address no lookup of the instruction fails.
C15_ResolutionReadsLatest ==
    [][Executes =>
          LET args == path[ip].arguments
              first == IF path[ip].action = SEND THEN 2 ELSE 1
          IN /\ Unresolved(args) => (pc' = "raised" /\ issued' = issued)
             /\ (~Unresolved(args) /\ OtherKeysPresent) => err' # "KeyError"
             /\ issued' # issued =>
                   LET c == issued'[Len(issued')].cmd IN
                   /\ Len(c.args) = Len(args)
                   /\ \A k \in first..Len(args) : c.args[k] = Expected(args[k])]_vars

\* C15 witness: Deploy(B, [$A]) was issued with the address a Deploy(A) of the
\* same run had stored
C15_Witness ==
    /\ Len(issued) >= 2
    /\ "A" \in stored /\ "A" \notin DOMAIN atStart
    /\ LET c == issued[Len(issued)].cmd IN
       /\ c.tool = "forge create" /\ c.label = "B"
       /\ c.args = <<Lit(d.addresses["A"])>>

\* address mapping b keeps every entry of address mapping a
Keeps(a, b) ==
    \A l \in DOMAIN a : l \in DOMAIN b /\ b[l] = a[l]

\* C20: while path() interprets the script no address of the object is removed
\* or changed; the mapping changes only when an Active Deploy of a label
\* without address adds that label, and never at a Send, SkipStart or SkipEnd.
C20_AddressesStableInRun ==
    [][pc = "path" =>
          /\ Keeps(d.addresses, d'.addresses)
          /\ d'.addresses # d.addresses =>
                /\ AtInstr /\ ~skipping /\ path[ip].action = DEPLOY
                /\ path[ip].label \notin DOMAIN d.addresses
                /\ DOMAIN d'.addresses = DOMAIN d.addresses \cup {path[ip].label}]_vars

\* C20 witness: an address stored by a Deploy of this run, and one known at
\* startup, are still in the object after two later instructions were handled
C20_Witness ==
    /\ pc = "path" /\ ip = 4
    /\ path[1].action = DEPLOY /\ path[1].label \in DOMAIN atStart
    /\ path[2].action = DEPLOY /\ path[2].label \in stored
    /\ path[3].action = SEND /\ Len(issued) = 2
    /\ path[2].label \in DOMAIN d.addresses /\ Keeps(atStart, d.addresses)

\* C19: executing a Send leaves the script, and so the argument list of the
\* instruction, as it was.
C19_SendLeavesScriptUnchanged ==
    [][(AtInstr /\ ~skipping /\ path[ip].action = SEND) => path' = path]_vars

\* the three mappings of registry a are those of registry b
SameRegistry(a, b) ==
    /\ a.contracts = b.contracts
    /\ a.addresses = b.addresses
    /\ a.contract_signatures = b.contract_signatures

\* C16: when the registration of a contract fails at startup, the registry is
\* the one that the cache and the contracts registered before it had produced.
C16_RegistrationAllOrNothing ==
    [][(pc' = "init_raised" /\ runs' # runs /\ load_from_cache(NewDeployer, cacheFile).err = "")
          => \E k \in 0..(Len(program'.contracts) - 1) :
                LET before == add_contracts(load_from_cache(NewDeployer, cacheFile).self,
                                            SubSeq(program'.contracts, 1, k), out, 1)
                IN /\ before.err = ""
                   /\ add_contracts(before.self, <<program'.contracts[k + 1]>>, out, 1).err # ""
                   /\ SameRegistry(d', before.self)]_vars

\* C17: after a successful startup every label registered with a locator has a
\* signature table under that locator.
C17_SignatureTablePresent ==
    pc \in {"ready", "path"} =>
        \A l \in DOMAIN d.contracts : d.contracts[l] \in DOMAIN d.contract_signatures

\* the cache file holds address a for label l
CacheHolds(l, a) ==
    /\ cacheFile.kind = "full"
    /\ l \in DOMAIN cacheFile.snap.addresses
    /\ cacheFile.snap.addresses[l] = a

\* both processes finished successfully and the cache file lacks an address
\* that one of them deployed and saved
Lost ==
    /\ pc = "done" /\ other.pc = "done"
    /\ \/ \E l \in stored : ~CacheHolds(l, d.addresses[l])
       \/ \E l \in other.stored : ~CacheHolds(l, other.d.addresses[l])

\* C18: two finished runs have lost an address only if one of them started
\* while the other had not yet finished (their loads and saves interleaved);
\* serialized runs never lose one.
C18_SerializedRunsLoseNothing == Lost => overlap

\* C18 witness: two interleaved runs both finished and an address is lost
C18_Witness == Lost /\ overlap /\ cacheFile.kind = "full"

====
